---- MODULE Spec2Model ----
(***************************************************************************)
(* Legal text splitter: the segmentation core (TextSplitter,               *)
(* ClauseNumberDetector, LeadingPhraseDetector, RowGenerator) and the      *)
(* table view built on it.                                                 *)
(*                                                                         *)
(* A JavaScript string is a sequence of UTF-16 code units (naturals).      *)
(*   10 "\n"  13 "\r"  9 "\t"  32 " "  40 "("  41 ")"  42 "*"  46 "."      *)
(*   58 ":"   48..57 "0".."9"  65..90 "A".."Z"  97..122 "a".."z"           *)
(*   2406..2415 Devanagari digits, 2325..2351 the range written [ka-ya]    *)
(***************************************************************************)
EXTENDS Integers, Sequences, FiniteSets, TLC

VARIABLES argType, text, op, threw, segments, rows,
          probe, probeRows, between,
          fullRows, currentRows, collapseChecked, displayRows, output,
          lineArg, call, answer,
          history, textarea, uploads

vars == <<argType, text, op, threw, segments, rows,
          probe, probeRows, between,
          fullRows, currentRows, collapseChecked, displayRows, output,
          lineArg, call, answer,
          history, textarea, uploads>>

coreVars == <<argType, text, op, threw, segments, rows>>
callVars == <<probe, probeRows, between>>
viewVars == <<fullRows, currentRows, collapseChecked, displayRows, output>>
lineVars == <<lineArg, call, answer>>
sessionVars == <<history, textarea, uploads>>

-----------------------------------------------------------------------------
(* Bounds of the model *)

MaxLen == 4
MaxEntryLen == 2
MaxCallLen == 2
MaxViewLen == 4
MaxEolLen == 3
MaxLineLen == 3
MaxNormLen == 5
MaxNumeralLen == 2
\* longest text given to splitByParagraphs in SpecPara
MaxParaLen == 4
\* longest array given to importHistory in SpecHistory
MaxImportLen == 7
\* longest text split in SpecTable, and the most rows the table is given
MaxTableLen == 3
MaxTableRows == 3
\* most file selections in SpecUpload
MaxUploads == 3

-----------------------------------------------------------------------------
(* JavaScript values and string primitives *)

\* null (also the result of `x || null` for an empty string); no code unit is -1
Null == <<-1>>

Truthy(s) == s # Null /\ s # <<>>

orNull(s) == IF Truthy(s) THEN s ELSE Null

\* WhiteSpace and LineTerminator code units: what trim(), trimStart() and \s remove
WhiteSpace == {9, 10, 11, 12, 13, 32, 160, 5760, 8232, 8233, 8239, 8287, 12288, 65279}
                 \cup (8192..8202)

\* first index >= i whose code unit is outside S (Len(s)+1 when there is none);
\* i is at most Len(s)+1
SkipSet(s, i, S) ==
    CHOOSE j \in i..(Len(s) + 1) :
        /\ (j = Len(s) + 1 \/ s[j] \notin S)
        /\ \A k \in i..(j - 1) : s[k] \in S

\* last index whose code unit is not white space (0 when there is none)
lastNonWhiteSpace(s) ==
    CHOOSE j \in 0..Len(s) :
        /\ (j = 0 \/ s[j] \notin WhiteSpace)
        /\ \A k \in (j + 1)..Len(s) : s[k] \in WhiteSpace

trimStart(s) == SubSeq(s, SkipSet(s, 1, WhiteSpace), Len(s))

trimEnd(s) == SubSeq(s, 1, lastNonWhiteSpace(s))

trim(s) == trimEnd(trimStart(s))

includes(s, c) == \E j \in 1..Len(s) : s[j] = c

\* String.prototype.indexOf for a single code unit, 0-based, -1 when absent
indexOf(s, c) ==
    IF includes(s, c)
    THEN (CHOOSE j \in 1..Len(s) : s[j] = c /\ \A k \in 1..(j - 1) : s[k] # c) - 1
    ELSE -1

\* String.prototype.substring(from) and substring(from, to), 0-based
substringFrom(s, from) == SubSeq(s, from + 1, Len(s))
substring(s, from, to) == SubSeq(s, from + 1, to)

RECURSIVE split(_, _)
RECURSIVE splitAt(_, _, _)
\* String.prototype.split on one separator code unit
split(s, sep) == IF includes(s, sep) THEN splitAt(s, sep, indexOf(s, sep)) ELSE <<s>>

splitAt(s, sep, k) == <<substring(s, 0, k)>> \o split(substringFrom(s, k + 1), sep)

RECURSIVE Flatten(_)
Flatten(ss) == IF ss = <<>> THEN <<>> ELSE Head(ss) \o Flatten(Tail(ss))

-----------------------------------------------------------------------------
(* ClauseNumberDetector *)

\* the 12 amendment symbols: ballot box, *, dagger, double dagger, section,
\* pilcrow, bullet, diamond, square, small square, triangle, pointer
amendmentSymbols == {9745, 42, 8224, 8225, 167, 182, 8226, 9670, 9632, 9642, 9650, 9658}

AsciiDigits == 48..57
AsciiLower == 97..122
AsciiUpper == 65..90
DevanagariDigits == 2406..2415
\* the character range written [ka-ya] in the patterns: U+0915..U+092F
DevanagariRange == 2325..2351

NoMatch == [matched |-> FALSE, m0 |-> Null, m1 |-> Null]

\* /^[symbols]?\s*(DIGITS+(?:LETTER)?)\s*\./ applied at the start of s, position
\* by position: p2 after [symbols]?\s*, p3 after DIGITS+, p4 after LETTER?, p5
\* after \s*. The classes are pairwise disjoint, so the greedy match is the
\* only one.
\* the numeral patterns without their final period
numeralMatchWithoutPeriod(s, p2, p3, p4, p5) ==
    IF p3 > p2
    THEN [matched |-> TRUE, m0 |-> SubSeq(s, 1, p5 - 1), m1 |-> SubSeq(s, p2, p4 - 1)]
    ELSE NoMatch

numeralMatchAtPeriod(s, p2, p3, p4, p5) ==
    IF p3 > p2 /\ p5 <= Len(s) /\ s[p5] = 46
    THEN [matched |-> TRUE, m0 |-> SubSeq(s, 1, p5), m1 |-> SubSeq(s, p2, p4 - 1)]
    ELSE NoMatch

numeralMatchAfterLetter(s, p2, p3, p4) ==
    numeralMatchAtPeriod(s, p2, p3, p4, SkipSet(s, p4, WhiteSpace))

numeralMatchAfterDigits(s, letters, p2, p3) ==
    numeralMatchAfterLetter(s, p2, p3,
        IF p3 <= Len(s) /\ s[p3] \in letters THEN p3 + 1 ELSE p3)

numeralMatchAfterSymbol(s, digits, letters, p2) ==
    numeralMatchAfterDigits(s, letters, p2, SkipSet(s, p2, digits))

numeralPatternMatch(s, digits, letters) ==
    numeralMatchAfterSymbol(s, digits, letters,
        SkipSet(s, IF Len(s) >= 1 /\ s[1] \in amendmentSymbols THEN 2 ELSE 1, WhiteSpace))

\* the i flag makes [a-z] accept both cases
englishNumeralPattern(s) == numeralPatternMatch(s, AsciiDigits, AsciiLower \cup AsciiUpper)

devanagariNumeralPattern(s) == numeralPatternMatch(s, DevanagariDigits, DevanagariRange)

SubClauseInner ==
    AsciiDigits \cup AsciiLower \cup AsciiUpper \cup DevanagariRange \cup DevanagariDigits

subClauseClose(s, p1, p2) == p2 > p1 + 1 /\ p2 <= Len(s) /\ s[p2] = 41

subClauseOpen(s, p1) ==
    IF p1 <= Len(s) /\ s[p1] = 40
    THEN subClauseClose(s, p1, SkipSet(s, p1 + 1, SubClauseInner))
    ELSE FALSE

\* /^\s*\([0-9a-zA-Z<ka-ya><Devanagari digits>]+\)/ .test(s)
subClausePattern(s) == subClauseOpen(s, SkipSet(s, 1, WhiteSpace))

firstSymbolOf(trimmed) ==
    IF Len(trimmed) >= 1 /\ trimmed[1] \in amendmentSymbols THEN <<trimmed[1]>> ELSE Null

extractAmendmentSymbol(t) == firstSymbolOf(trimStart(t))

DevanagariLetterKeys ==
    {2325, 2326, 2327, 2328, 2329, 2330, 2331, 2332, 2333, 2334, 2335, 2336, 2337,
     2338, 2339, 2340, 2341, 2342, 2343, 2344, 2346, 2347, 2348, 2349, 2350, 2351}

extractDevanagariLetter(numeral) ==
    IF Len(numeral) >= 1 /\ numeral[Len(numeral)] \in DevanagariLetterKeys
    THEN <<numeral[Len(numeral)]>> ELSE Null

\* the keys of DevanagariParser.devanagariLetters in the order of the table
devanagariLetterOrder ==
    <<2325, 2326, 2327, 2328, 2329, 2330, 2331, 2332, 2333, 2334, 2335, 2336, 2337,
      2338, 2339, 2340, 2341, 2342, 2343, 2344, 2346, 2347, 2348, 2349, 2350, 2351>>

\* devanagariLetters[c]: the n-th key maps to the n-th letter of a..z
devanagariLetters(c) ==
    96 + (CHOOSE n \in 1..Len(devanagariLetterOrder) : devanagariLetterOrder[n] = c)

\* devanagariDigits[c]
devanagariDigits(c) == 48 + (c - 2406)

\* a letter mapped by its distance from ka in the character set
englishCharByCodePoint(c) ==
    IF c \in DevanagariDigits THEN devanagariDigits(c)
    ELSE IF c \in DevanagariLetterKeys THEN 97 + (c - 2325)
    ELSE c

\* the body of getEnglishEquivalent's loop
englishChar(c) ==
    IF c \in DevanagariDigits THEN devanagariDigits(c)
    ELSE IF c \in DevanagariLetterKeys THEN devanagariLetters(c)
    ELSE c

getEnglishEquivalent(devanagariNumeral) ==
    [k \in 1..Len(devanagariNumeral) |-> englishChar(devanagariNumeral[k])]

isAlphaNumeric(numeral) == extractDevanagariLetter(numeral) # Null

NoClause == [detected |-> FALSE, fullClause |-> Null, baseNumber |-> Null,
             amendment |-> Null, language |-> "none", hasAlpha |-> FALSE]

\* the two pattern attempts of detectClauseNumber
detectByPatterns(trimmedLine, englishMatch, devanagariMatch) ==
    IF englishMatch.matched
    THEN [detected |-> TRUE,
          fullClause |-> trim(englishMatch.m0),
          baseNumber |-> englishMatch.m1,
          amendment |-> extractAmendmentSymbol(trimmedLine),
          language |-> "english",
          hasAlpha |-> \E j \in 1..Len(englishMatch.m1) :
                          englishMatch.m1[j] \in AsciiLower \cup AsciiUpper]
    ELSE IF devanagariMatch.matched
    THEN [detected |-> TRUE,
          fullClause |-> trim(devanagariMatch.m0),
          baseNumber |-> devanagariMatch.m1,
          amendment |-> extractAmendmentSymbol(trimmedLine),
          language |-> "devanagari",
          hasAlpha |-> isAlphaNumeric(devanagariMatch.m1)]
    ELSE NoClause

detectInTrimmed(trimmedLine) ==
    IF subClausePattern(trimmedLine) THEN NoClause
    ELSE detectByPatterns(trimmedLine, englishNumeralPattern(trimmedLine),
                          devanagariNumeralPattern(trimmedLine))

detectClauseNumber(line) ==
    IF (~Truthy(line)) \/ trim(line) = <<>> THEN NoClause
    ELSE detectInTrimmed(trimStart(line))

hasClauseNumber(line) == detectClauseNumber(line).detected

clauseNumberRowOf(detected) ==
    IF ~detected.detected THEN Null
    ELSE IF detected.amendment # Null
    THEN detected.amendment \o detected.fullClause
    ELSE detected.fullClause

getClauseNumberRow(line) == clauseNumberRowOf(detectClauseNumber(line))

remainderAfterDot(trimmed, dotIndex) ==
    IF dotIndex # -1
    THEN orNull(trimStart(substringFrom(trimmed, dotIndex + 1)))
    ELSE Null

remainderOfTrimmed(trimmed) == remainderAfterDot(trimmed, indexOf(trimmed, 46))

getRemainder(line) ==
    IF ~detectClauseNumber(line).detected THEN Null
    ELSE remainderOfTrimmed(trimStart(line))

\* isSubClause with the pattern free to match anywhere in the line
isSubClauseAnywhere(line) ==
    \E k \in 1..Len(line) : subClausePattern(SubSeq(line, k, Len(line)))

isSubClause(line) == subClausePattern(trimStart(line))

amendmentClauseOf(detected) ==
    IF ~detected.detected THEN FALSE
    ELSE detected.hasAlpha \/ detected.amendment # Null

isAmendmentClause(line) == amendmentClauseOf(detectClauseNumber(line))

\* getClauseType's result; "null" stands for null
clauseTypeOf(detected) ==
    IF ~detected.detected THEN "null"
    ELSE IF detected.hasAlpha \/ Truthy(detected.amendment) THEN "amendment"
    ELSE "regular"

getClauseType(line) == clauseTypeOf(detectClauseNumber(line))

-----------------------------------------------------------------------------
(* LeadingPhraseDetector *)

NoPhrase == [found |-> FALSE, phrase |-> Null, content |-> Null, hasContent |-> FALSE]

phraseAndContent(leadingPhraseRaw, contentAfterColon) ==
    IF ~Truthy(leadingPhraseRaw) THEN NoPhrase
    ELSE [found |-> TRUE,
          phrase |-> leadingPhraseRaw \o <<58>>,
          content |-> orNull(contentAfterColon),
          hasContent |-> Len(contentAfterColon) > 0]

\* detectLeadingPhrase from the colon on, without the trim of the content
phraseAtColonUntrimmed(remainder, colonIndex) ==
    IF colonIndex = -1 THEN NoPhrase
    ELSE phraseAndContent(trim(substring(remainder, 0, colonIndex)),
                          substringFrom(remainder, colonIndex + 1))

phraseAtColon(remainder, colonIndex) ==
    IF colonIndex = -1 THEN NoPhrase
    ELSE phraseAndContent(trim(substring(remainder, 0, colonIndex)),
                          trim(substringFrom(remainder, colonIndex + 1)))

\* detectLeadingPhrase cutting at the last colon of the remainder
detectLeadingPhraseLastColon(line, remainder) ==
    IF ~Truthy(remainder) THEN NoPhrase
    ELSE phraseAtColon(remainder,
             IF includes(remainder, 58)
             THEN (CHOOSE j \in 1..Len(remainder) :
                      remainder[j] = 58 /\ \A k \in (j + 1)..Len(remainder) : remainder[k] # 58) - 1
             ELSE -1)

detectLeadingPhrase(line, remainder) ==
    IF ~Truthy(remainder) THEN NoPhrase
    ELSE phraseAtColon(remainder, indexOf(remainder, 58))

phraseOf(detected) == IF detected.found THEN detected.phrase ELSE Null

phraseOfRemainder(line, remainder) ==
    IF ~Truthy(remainder) THEN Null
    ELSE phraseOf(detectLeadingPhrase(line, remainder))

getLeadingPhrase(line) ==
    IF ~detectClauseNumber(line).detected THEN Null
    ELSE phraseOfRemainder(line, getRemainder(line))

contentOf(detected) ==
    IF detected.found /\ detected.hasContent THEN detected.content ELSE Null

contentOfRemainder(line, remainder) ==
    IF ~Truthy(remainder) THEN Null
    ELSE contentOf(detectLeadingPhrase(line, remainder))

getContentAfterPhrase(line) ==
    IF ~detectClauseNumber(line).detected THEN Null
    ELSE contentOfRemainder(line, getRemainder(line))

foundInRemainder(line, remainder) ==
    IF ~Truthy(remainder) THEN FALSE
    ELSE detectLeadingPhrase(line, remainder).found

hasLeadingPhrase(line) ==
    IF ~detectClauseNumber(line).detected THEN FALSE
    ELSE foundInRemainder(line, getRemainder(line))

-----------------------------------------------------------------------------
(* TextSplitter *)

\* what the clause branch pushes, from the four values it reads
clauseRows(clauseNumberRow, leadingPhrase, contentAfterPhrase, remainder) ==
    <<clauseNumberRow>> \o
    (IF Truthy(leadingPhrase)
     THEN <<leadingPhrase>> \o
          (IF Truthy(contentAfterPhrase) THEN <<contentAfterPhrase>> ELSE <<>>)
     ELSE (IF Truthy(remainder) THEN <<remainder>> ELSE <<>>))

\* the clause branch of splitText's loop
clauseLineRows(line) ==
    clauseRows(getClauseNumberRow(line), getLeadingPhrase(line),
               getContentAfterPhrase(line), getRemainder(line))

cutAtColon(line, cut) ==
    IF cut.found
    THEN <<cut.phrase>> \o (IF cut.hasContent THEN <<cut.content>> ELSE <<>>)
    ELSE <<line>>

\* splitLine with a sub-clause line cut at its first colon like a clause remainder
splitLineCutsSubClause(line) ==
    IF detectClauseNumber(line).detected THEN clauseLineRows(line)
    ELSE IF isSubClause(line) THEN cutAtColon(line, detectLeadingPhrase(line, line))
    ELSE <<line>>

\* splitLine that pushes a plain line only when it is not the empty string
splitLineDropsEmpty(line) ==
    IF detectClauseNumber(line).detected THEN clauseLineRows(line)
    ELSE IF isSubClause(line) THEN <<line>>
    ELSE (IF Truthy(line) THEN <<line>> ELSE <<>>)

\* the body of splitText's loop: the segments pushed for one line
splitLine(line) ==
    IF detectClauseNumber(line).detected THEN clauseLineRows(line)
    ELSE IF isSubClause(line) THEN <<line>>
    ELSE <<line>>

\* splitLines remembering the line before: a line after an empty line is kept whole
splitLinesKeepAfterBlank(lines) ==
    Flatten([lineIndex \in 1..Len(lines) |->
                IF lineIndex > 1 /\ lines[lineIndex - 1] = <<>>
                THEN <<lines[lineIndex]>>
                ELSE splitLine(lines[lineIndex])])

splitLines(lines) == Flatten([lineIndex \in 1..Len(lines) |-> splitLine(lines[lineIndex])])

\* splitText on a string argument
splitText(t) == IF ~Truthy(t) THEN <<>> ELSE splitLines(split(t, 10))

RECURSIVE collapseSpacesInPairs(_)
\* replace(/  /g, ' '): every two spaces become one, pair by pair
collapseSpacesInPairs(s) ==
    IF Len(s) < 2 THEN s
    ELSE IF s[1] = 32 /\ s[2] = 32
    THEN <<32>> \o collapseSpacesInPairs(SubSeq(s, 3, Len(s)))
    ELSE <<s[1]>> \o collapseSpacesInPairs(Tail(s))

RECURSIVE collapseSpaces(_)
\* replace(/  +/g, ' '): every run of two or more spaces becomes one space
collapseSpaces(s) ==
    IF Len(s) < 2 THEN s
    ELSE IF s[1] = 32 /\ s[2] = 32 THEN collapseSpaces(Tail(s))
    ELSE <<s[1]>> \o collapseSpaces(Tail(s))

normalizeRow(row) == collapseSpaces(trim(row))

normalizeRows(rs) == [i \in 1..Len(rs) |-> normalizeRow(rs[i])]

splitWithNormalization(t) == normalizeRows(splitText(t))

\* totalLines of analyzeSplitting
totalLines(t) == IF ~Truthy(t) THEN 0 ELSE Len(split(t, 10))

\* /\n\s*\n/ matches from the newline at i: a later newline follows it with
\* white space only in between
paragraphBreakAt(s, i) ==
    /\ s[i] = 10
    /\ \E j \in (i + 1)..(SkipSet(s, i, WhiteSpace) - 1) : s[j] = 10

hasParagraphBreak(s) == \E i \in 1..Len(s) : paragraphBreakAt(s, i)

\* start of the leftmost match
firstParagraphBreak(s) ==
    CHOOSE i \in 1..Len(s) :
        paragraphBreakAt(s, i) /\ \A k \in 1..(i - 1) : ~paragraphBreakAt(s, k)

\* end of the match that starts at i: the last newline of the white-space run
paragraphBreakEnd(s, i, runEnd) ==
    CHOOSE j \in (i + 1)..runEnd :
        s[j] = 10 /\ \A k \in (j + 1)..runEnd : s[k] # 10

RECURSIVE splitParagraphs(_)
RECURSIVE cutParagraph(_, _)
\* String.prototype.split(/\n\s*\n/)
splitParagraphs(s) ==
    IF hasParagraphBreak(s) THEN cutParagraph(s, firstParagraphBreak(s)) ELSE <<s>>

cutParagraph(s, i) ==
    <<SubSeq(s, 1, i - 1)>> \o
    splitParagraphs(SubSeq(s, paragraphBreakEnd(s, i, SkipSet(s, i, WhiteSpace) - 1) + 1,
                           Len(s)))

\* the rows pushed for one paragraph, given the last paragraph of the text
paragraphRows(paragraph, lastParagraph) ==
    (IF trim(paragraph) = <<>> THEN << <<>> >> ELSE splitLines(split(paragraph, 10)))
    \o (IF paragraph # lastParagraph THEN << <<>> >> ELSE <<>>)

paragraphsRows(paragraphs) ==
    Flatten([k \in 1..Len(paragraphs) |->
                paragraphRows(paragraphs[k], paragraphs[Len(paragraphs)])])

splitByParagraphs(t) == IF ~Truthy(t) THEN <<>> ELSE paragraphsRows(splitParagraphs(t))

\* the body of splitWithLanguageDetection's loop
languageLine(line) == IF hasClauseNumber(line) THEN clauseLineRows(line) ELSE <<line>>

languageLines(lines) == Flatten([k \in 1..Len(lines) |-> languageLine(lines[k])])

\* splitWithLanguageDetection on a string argument (no guard: any other
\* argument has no split method)
splitWithLanguageDetection(t) == languageLines(split(t, 10))

\* estimateLine without the row of the clause number
estimateLineWithoutClauseRow(line) ==
    IF hasClauseNumber(line) /\ hasLeadingPhrase(line)
    THEN 1 + (IF Truthy(getContentAfterPhrase(line)) THEN 1 ELSE 0)
    ELSE 0

\* what analyzeSplitting adds to estimatedRows for one line
estimateLine(line) ==
    IF hasClauseNumber(line)
    THEN 1 + (IF hasLeadingPhrase(line)
              THEN 1 + (IF Truthy(getContentAfterPhrase(line)) THEN 1 ELSE 0)
              ELSE 0)
    ELSE 0

RECURSIVE SumSeq(_)
SumSeq(ns) == IF ns = <<>> THEN 0 ELSE Head(ns) + SumSeq(Tail(ns))

estimateLines(lines) == Len(lines) + SumSeq([k \in 1..Len(lines) |-> estimateLine(lines[k])])

\* estimatedRows of analyzeSplitting
estimatedRows(t) == IF ~Truthy(t) THEN 0 ELSE estimateLines(split(t, 10))

LargeDocumentRows == 1000

isLargeDocument(t) ==
    IF ~Truthy(t) THEN FALSE ELSE estimatedRows(t) > LargeDocumentRows

-----------------------------------------------------------------------------
(* RowGenerator *)

\* /^[symbols]?DIGITS+LETTER?\.?$/ on the whole of s, position by position
clauseRowAtEnd(s, p1, p2, p3) ==
    p2 > p1 /\ (IF p3 <= Len(s) /\ s[p3] = 46 THEN p3 + 1 ELSE p3) = Len(s) + 1

clauseRowAfterDigits(s, letters, p1, p2) ==
    clauseRowAtEnd(s, p1, p2, IF p2 <= Len(s) /\ s[p2] \in letters THEN p2 + 1 ELSE p2)

clauseRowAfterSymbol(s, digits, letters, p1) ==
    clauseRowAfterDigits(s, letters, p1, SkipSet(s, p1, digits))

clauseRowPattern(s, digits, letters) ==
    clauseRowAfterSymbol(s, digits, letters,
        IF Len(s) >= 1 /\ s[1] \in amendmentSymbols THEN 2 ELSE 1)

isClauseNumberTrimmed(trimmed) ==
    IF clauseRowPattern(trimmed, AsciiDigits, AsciiLower) THEN TRUE
    ELSE IF clauseRowPattern(trimmed, DevanagariDigits, DevanagariRange) THEN TRUE
    ELSE FALSE

isClauseNumber(t) ==
    IF (~Truthy(t)) \/ trim(t) = <<>> THEN FALSE ELSE isClauseNumberTrimmed(trim(t))

\* endsWith accepting a closing period as well as a colon
endsWithColonOrPeriod(trimmed) == trimmed[Len(trimmed)] \in {58, 46}

endsWithColon(trimmed) == trimmed[Len(trimmed)] = 58

isLeadingPhrase(t) ==
    IF (~Truthy(t)) \/ trim(t) = <<>> THEN FALSE ELSE endsWithColon(trim(t))

isAmendment(t) ==
    IF ~Truthy(t) THEN FALSE
    ELSE \E symbol \in amendmentSymbols : includes(t, symbol)

DevanagariBlock == 2304..2431

hasEnglish(t) == \E j \in 1..Len(t) : t[j] \in AsciiLower \cup AsciiUpper

hasDevanagari(t) == \E j \in 1..Len(t) : t[j] \in DevanagariBlock

detectLanguage(t) ==
    IF ~Truthy(t) THEN "unknown"
    ELSE IF hasEnglish(t) /\ hasDevanagari(t) THEN "mixed"
    ELSE IF hasDevanagari(t) THEN "devanagari"
    ELSE IF hasEnglish(t) THEN "english"
    ELSE "other"

\* rowObject numbering from the loop index itself
rowObjectZeroBased(i, t) ==
    [number |-> i,
     text |-> t,
     isEmpty |-> trim(t) = <<>>,
     isClauseNumber |-> isClauseNumber(t),
     isLeadingPhrase |-> isLeadingPhrase(t),
     isAmendment |-> isAmendment(t),
     language |-> detectLanguage(t),
     length |-> Len(t)]

rowObject(i, t) ==
    [number |-> i + 1,
     text |-> t,
     isEmpty |-> trim(t) = <<>>,
     isClauseNumber |-> isClauseNumber(t),
     isLeadingPhrase |-> isLeadingPhrase(t),
     isAmendment |-> isAmendment(t),
     language |-> detectLanguage(t),
     length |-> Len(t)]

\* generateRows numbering on from the rows of the previous call
generateRowsCarryOver(rs) == [k \in 1..Len(rs) |-> rowObject(Len(rows) + k - 1, rs[k])]

\* generateRows: the loop index i runs from 0
generateRows(rs) == [k \in 1..Len(rs) |-> rowObject(k - 1, rs[k])]

generateRowsFromText(t) == generateRows(splitWithNormalization(t))

getRowClasses(row) ==
    (IF row.isEmpty THEN <<"empty-row">> ELSE <<>>)
    \o (IF row.isClauseNumber THEN <<"clause-number">> ELSE <<>>)
    \o (IF row.isLeadingPhrase THEN <<"leading-phrase">> ELSE <<>>)
    \o (IF row.isAmendment THEN <<"amendment-clause">> ELSE <<>>)
    \o (IF row.language = "devanagari" \/ row.language = "mixed"
        THEN <<"devanagari">> ELSE <<>>)

getDisplayText(row) == IF row.isEmpty THEN <<>> ELSE row.text

enhanceRow(row, index, n) ==
    [number |-> row.number,
     text |-> row.text,
     isEmpty |-> row.isEmpty,
     isClauseNumber |-> row.isClauseNumber,
     isLeadingPhrase |-> row.isLeadingPhrase,
     isAmendment |-> row.isAmendment,
     language |-> row.language,
     length |-> row.length,
     index |-> index,
     isFirst |-> index = 0,
     isLast |-> index = n - 1,
     classes |-> getRowClasses(row),
     displayText |-> getDisplayText(row),
     isMainClause |-> row.isClauseNumber /\ ~row.isAmendment,
     isAmendmentClause |-> row.isClauseNumber /\ row.isAmendment]

enhanceRows(rs) == [k \in 1..Len(rs) |-> enhanceRow(rs[k], k - 1, Len(rs))]

-----------------------------------------------------------------------------
(* ExportHandler: the rows of the JSON export *)

\* getRowType testing the amendment flag before the clause-number flag
getRowTypeAmendmentFirst(row) ==
    IF row.isEmpty THEN "empty"
    ELSE IF row.isAmendment THEN "amendment-clause"
    ELSE IF row.isClauseNumber THEN "clause-number"
    ELSE IF row.isLeadingPhrase THEN "leading-phrase"
    ELSE "content"

getRowType(row) ==
    IF row.isEmpty THEN "empty"
    ELSE IF row.isClauseNumber
    THEN (IF row.isAmendment THEN "amendment-clause" ELSE "clause-number")
    ELSE IF row.isLeadingPhrase THEN "leading-phrase"
    ELSE "content"

\* the rows array of exportAsJson (the metadata object is left out)
exportAsJson(rs) ==
    [k \in 1..Len(rs) |->
        [number |-> rs[k].number,
         text |-> rs[k].text,
         isEmpty |-> rs[k].isEmpty,
         type |-> getRowType(rs[k]),
         language |-> rs[k].language]]

-----------------------------------------------------------------------------
(* Inputs *)

\* newline, space, ( ) * . 5 : a
Chars == {10, 32, 40, 41, 42, 46, 53, 58, 97}

StringsUpTo(n) == UNION {[1..k -> Chars] : k \in 0..n}

\* 5. Definitions: Content here.
Scenario1 ==
    <<53, 46, 32, 68, 101, 102, 105, 110, 105, 116, 105, 111, 110, 115, 58,
      32, 67, 111, 110, 116, 101, 110, 116, 32, 104, 101, 114, 101, 46>>

\* *16a. New clause here.
Scenario2 ==
    <<42, 49, 54, 97, 46, 32, 78, 101, 119, 32, 99, 108, 97, 117, 115, 101,
      32, 104, 101, 114, 101, 46>>

\* (a) content
Scenario3 ==
    <<40, 97, 41, 32, 99, 111, 110, 116, 101, 110, 116>>

\* \u0967.\n\u0938\u0902\u0915\u094d\u0937\u093f\u092a\u094d\u0924 \u0928\u093e\u092e: \u0935\u093f\u0935\u0930\u0923
Scenario4 ==
    <<2407, 46, 10, 2360, 2306, 2325, 2381, 2359, 2367, 2346, 2381, 2340,
      32, 2344, 2366, 2350, 58, 32, 2357, 2367, 2357, 2352, 2339>>

\* 5. Title\n\n\n(a) x
Scenario5 ==
    <<53, 46, 32, 84, 105, 116, 108, 101, 10, 10, 10, 40, 97, 41, 32, 120>>

\* (\u0967) \u0967. \u0915: \u0916  -- a Devanagari sub-clause marker before clause-like text
Scenario6 ==
    <<40, 2407, 41, 32, 2407, 46, 32, 2325, 58, 32, 2326>>

SampleDocs == {Scenario1, Scenario2, Scenario3, Scenario4, Scenario5, Scenario6}

Inputs == StringsUpTo(MaxLen) \cup SampleDocs

\* typeof of an argument that is not a string
NonStringTypes == {"null", "undefined", "number", "object"}

-----------------------------------------------------------------------------
(* State machine: one call of an entry point on the argument *)

CoreIdle ==
    /\ op = "idle"
    /\ threw = FALSE
    /\ segments = <<>>
    /\ rows = <<>>

CallsIdle == probe = Null /\ probeRows = <<>> /\ between = FALSE

\* output: what the handler that ran last wrote to the clipboard or to the
\* download; nothing for a handler that writes neither
NoOutput == [via |-> "none", lines |-> <<>>]

ViewIdle ==
    /\ fullRows = <<>>
    /\ currentRows = <<>>
    /\ collapseChecked = FALSE
    /\ displayRows = <<>>
    /\ output = NoOutput

\* no detector function called on a line of its own
LineIdle == lineArg = <<>> /\ call = "none" /\ answer = [value |-> FALSE]
\* an empty history in localStorage, an empty textarea, no file selected yet
SessionIdle == history = <<>> /\ textarea = <<>> /\ uploads = <<>>

Init ==
    /\ argType = "string"
    /\ text \in Inputs
    /\ CoreIdle
    /\ CallsIdle
    /\ ViewIdle
    /\ SessionIdle
    /\ LineIdle

\* TextSplitter.splitText(text)
CallSplitText ==
    /\ op = "idle"
    /\ op' = "splitText"
    /\ segments' = IF argType = "string" THEN splitText(text) ELSE <<>>
    /\ UNCHANGED <<argType, text, threw, rows>>
    /\ UNCHANGED callVars
    /\ UNCHANGED viewVars
    /\ UNCHANGED lineVars
    /\ UNCHANGED sessionVars

\* RowGenerator.generateRowsFromText(text)
CallGenerateRowsFromText ==
    /\ op = "idle"
    /\ op' = "generateRowsFromText"
    /\ segments' = IF argType = "string" THEN splitWithNormalization(text) ELSE <<>>
    /\ rows' = generateRows(segments')
    /\ UNCHANGED <<argType, text, threw>>
    /\ UNCHANGED callVars
    /\ UNCHANGED viewVars
    /\ UNCHANGED lineVars
    /\ UNCHANGED sessionVars

\* RowGenerator.enhanceRows on the rows of the last generateRowsFromText
CallEnhanceRows ==
    /\ op = "generateRowsFromText"
    /\ op' = "enhanceRows"
    /\ rows' = enhanceRows(rows)
    /\ UNCHANGED <<argType, text, threw, segments>>
    /\ UNCHANGED callVars
    /\ UNCHANGED viewVars
    /\ UNCHANGED lineVars
    /\ UNCHANGED sessionVars

\* ExportHandler.exportAsJson on the enhanced rows
CallExportAsJson ==
    /\ op = "enhanceRows"
    /\ op' = "exportAsJson"
    /\ output' = [via |-> "json", lines |-> exportAsJson(rows)]
    /\ UNCHANGED <<argType, text, threw, segments, rows>>
    /\ UNCHANGED <<fullRows, currentRows, collapseChecked, displayRows>>
    /\ UNCHANGED callVars
    /\ UNCHANGED lineVars
    /\ UNCHANGED sessionVars

\* TextSplitter.analyzeSplitting on the text just split by splitText
CallAnalyzeSplitting ==
    /\ op = "splitText"
    /\ op' = "analyzeSplitting"
    /\ answer' = [value |-> FALSE,
                  estimatedRows |-> IF argType = "string" THEN estimatedRows(text) ELSE 0]
    /\ UNCHANGED <<argType, text, threw, segments, rows>>
    /\ UNCHANGED callVars
    /\ UNCHANGED viewVars
    /\ UNCHANGED <<lineArg, call>>
    /\ UNCHANGED sessionVars

Next ==
    \/ CallSplitText
    \/ CallGenerateRowsFromText
    \/ CallEnhanceRows
    \/ CallExportAsJson
    \/ CallAnalyzeSplitting

Spec == Init /\ [][Next]_vars

-----------------------------------------------------------------------------
(* Specification SpecEol: the same calls on texts with carriage returns *)

\* newline, carriage return, ., 5, a
EolChars == {10, 13, 46, 53, 97}

EolInputs == UNION {[1..k -> EolChars] : k \in 0..MaxEolLen}

InitEol ==
    /\ argType = "string"
    /\ text \in EolInputs
    /\ CoreIdle
    /\ CallsIdle
    /\ ViewIdle
    /\ SessionIdle
    /\ LineIdle

SpecEol == InitEol /\ [][Next]_vars

-----------------------------------------------------------------------------
(* Specification SpecNorm: splitWithNormalization, then its map callback *)
(* applied once more to the rows it returned                             *)

\* tab, newline, space, a
NormChars == {9, 10, 32, 97}

NormInputs == UNION {[1..k -> NormChars] : k \in 0..MaxNormLen}

InitNorm ==
    /\ argType = "string"
    /\ text \in NormInputs
    /\ CoreIdle
    /\ CallsIdle
    /\ ViewIdle
    /\ SessionIdle
    /\ LineIdle

\* TextSplitter.splitWithNormalization(text), keeping what splitText returned
\* in probeRows
CallNormalize ==
    /\ op = "idle"
    /\ op' = "splitWithNormalization"
    /\ probeRows' = splitText(text)
    /\ segments' = normalizeRows(probeRows')
    /\ UNCHANGED <<argType, text, threw, rows, probe, between>>
    /\ UNCHANGED viewVars
    /\ UNCHANGED lineVars
    /\ UNCHANGED sessionVars

\* the map callback of splitWithNormalization applied to the rows it
\* returned, which are kept in probeRows
CallNormalizeOutput ==
    /\ op = "splitWithNormalization"
    /\ op' = "normalizeOutput"
    /\ probeRows' = segments
    /\ segments' = normalizeRows(segments)
    /\ UNCHANGED <<argType, text, threw, rows, probe, between>>
    /\ UNCHANGED viewVars
    /\ UNCHANGED lineVars
    /\ UNCHANGED sessionVars

NextNorm == CallNormalize \/ CallNormalizeOutput

SpecNorm == InitNorm /\ [][NextNorm]_vars

-----------------------------------------------------------------------------
(* Specification SpecEntry: every splitting entry point, on any argument *)

InitEntry ==
    /\ argType \in {"string"} \cup NonStringTypes
    /\ text \in (IF argType = "string" THEN StringsUpTo(MaxEntryLen) ELSE {<<>>})
    /\ CoreIdle
    /\ CallsIdle
    /\ ViewIdle
    /\ SessionIdle
    /\ LineIdle

\* TextSplitter.splitByParagraphs(text)
CallSplitByParagraphs ==
    /\ op = "idle"
    /\ op' = "splitByParagraphs"
    /\ segments' = IF argType = "string" THEN splitByParagraphs(text) ELSE <<>>
    /\ UNCHANGED <<argType, text, threw, rows>>
    /\ UNCHANGED callVars
    /\ UNCHANGED viewVars
    /\ UNCHANGED lineVars
    /\ UNCHANGED sessionVars

\* TextSplitter.splitWithNormalization(text)
CallSplitWithNormalization ==
    /\ op = "idle"
    /\ op' = "splitWithNormalization"
    /\ segments' = IF argType = "string" THEN splitWithNormalization(text) ELSE <<>>
    /\ UNCHANGED <<argType, text, threw, rows>>
    /\ UNCHANGED callVars
    /\ UNCHANGED viewVars
    /\ UNCHANGED lineVars
    /\ UNCHANGED sessionVars

\* TextSplitter.splitWithLanguageDetection(text): text.split is called
\* unguarded, a TypeError for anything but a string
CallSplitWithLanguageDetection ==
    /\ op = "idle"
    /\ op' = "splitWithLanguageDetection"
    /\ threw' = (argType # "string")
    /\ segments' = IF argType = "string" THEN splitWithLanguageDetection(text) ELSE segments
    /\ UNCHANGED <<argType, text, rows>>
    /\ UNCHANGED callVars
    /\ UNCHANGED viewVars
    /\ UNCHANGED lineVars
    /\ UNCHANGED sessionVars

NextEntry ==
    \/ CallSplitText
    \/ CallSplitByParagraphs
    \/ CallSplitWithNormalization
    \/ CallSplitWithLanguageDetection
    \/ CallGenerateRowsFromText

SpecEntry == InitEntry /\ [][NextEntry]_vars

-----------------------------------------------------------------------------
(* Specification SpecCalls: generateRowsFromText invoked again and again *)

InitCalls ==
    /\ argType = "string"
    /\ text = <<>>
    /\ CoreIdle
    /\ CallsIdle
    /\ ViewIdle
    /\ SessionIdle
    /\ LineIdle

\* newline, *, ., 5
CallChars == {10, 42, 46, 53}

CallInputs == UNION {[1..k -> CallChars] : k \in 0..MaxCallLen}

\* one invocation; the first invocation of all is remembered in probe, and
\* between records that a different input has been split since
Invoke(t) ==
    /\ op' = "generateRowsFromText"
    /\ text' = t
    /\ segments' = splitWithNormalization(t)
    /\ rows' = generateRows(segments')
    /\ IF probe = Null
       THEN probe' = t /\ probeRows' = rows' /\ between' = FALSE
       ELSE /\ UNCHANGED <<probe, probeRows>>
            /\ between' = (between \/ t # probe)
    /\ UNCHANGED <<argType, threw>>
    /\ UNCHANGED viewVars
    /\ UNCHANGED lineVars
    /\ UNCHANGED sessionVars

NextCalls == \E t \in CallInputs : Invoke(t)

SpecCalls == InitCalls /\ [][NextCalls]_vars

-----------------------------------------------------------------------------
(* TableRenderer and the collapse checkbox (specification SpecView) *)

\* filterEmptyRows with the test the wrong way round
filterEmptyRowsInverted(rs) == SelectSeq(rs, LAMBDA row : row.isEmpty)

\* filterEmptyRows that numbers the rows it keeps 1, 2, 3, ...
filterEmptyRowsRenumbered(rs) ==
    [k \in 1..Len(SelectSeq(rs, LAMBDA row : ~row.isEmpty)) |->
        [SelectSeq(rs, LAMBDA row : ~row.isEmpty)[k] EXCEPT !.number = k]]

filterEmptyRows(rs) == SelectSeq(rs, LAMBDA row : ~row.isEmpty)

\* getDisplayRows that filters whatever the checkbox says
getDisplayRowsAlwaysCollapsed(current, collapseEmpty) == filterEmptyRows(current)

\* getDisplayRows(collapseEmpty) with this.currentRows = current
getDisplayRows(current, collapseEmpty) ==
    IF collapseEmpty THEN filterEmptyRows(current) ELSE current

\* TableRenderer.setFullRows(rows): the rows handed over become the rows the
\* renderer holds, before any filtering
setFullRows(rs) == rs

\* newline, a
ViewChars == {10, 97}

ViewInputs == UNION {[1..k -> ViewChars] : k \in 0..MaxViewLen}

InitView ==
    /\ argType = "string"
    /\ text = <<>>
    /\ CoreIdle
    /\ CallsIdle
    /\ ViewIdle
    /\ SessionIdle
    /\ LineIdle

\* UIController.handleSplit with t in the text area and the answer `confirmed`
\* to the large-document question, then performSplit
handleSplit(t, confirmed) ==
    /\ text' = t
    /\ IF (~Truthy(t)) \/ trim(t) = <<>>
       THEN UNCHANGED <<op, segments, rows, fullRows, currentRows, displayRows>>
       ELSE IF isLargeDocument(t) /\ ~confirmed
       THEN UNCHANGED <<op, segments, rows, fullRows, currentRows, displayRows>>
       ELSE /\ op' = "performSplit"
            /\ segments' = splitWithNormalization(t)
            /\ rows' = enhanceRows(generateRowsFromText(t))
            /\ fullRows' = setFullRows(rows')
            /\ displayRows' = getDisplayRows(fullRows', collapseChecked)
            /\ currentRows' = displayRows'
    /\ output' = NoOutput
    /\ UNCHANGED <<argType, threw, collapseChecked>>
    /\ UNCHANGED callVars
    /\ UNCHANGED lineVars
    /\ UNCHANGED sessionVars

\* the collapse checkbox changes and UIController.handleCollapseToggle runs
handleCollapseToggle ==
    /\ collapseChecked' = ~collapseChecked
    /\ IF currentRows = <<>>
       THEN UNCHANGED <<displayRows, currentRows>>
       ELSE /\ displayRows' = getDisplayRows(currentRows, collapseChecked')
            /\ currentRows' = displayRows'
    /\ output' = NoOutput
    /\ UNCHANGED <<fullRows>>
    /\ UNCHANGED coreVars
    /\ UNCHANGED callVars
    /\ UNCHANGED lineVars
    /\ UNCHANGED sessionVars

\* CopyHandler.formatRowsForCopy: one line per row, "Row <number>: <text>"
formatRowsForCopy(rs) ==
    [k \in 1..Len(rs) |->
        [number |-> rs[k].number,
         text |-> IF rs[k].isEmpty THEN <<>> ELSE rs[k].text]]

\* ExportHandler.exportAsText: "Row <number>: <text>", and the empty string
\* for an empty row (number 0: the line carries no number)
exportAsText(rs) ==
    [k \in 1..Len(rs) |->
        IF rs[k].isEmpty THEN [number |-> 0, text |-> <<>>]
        ELSE [number |-> rs[k].number, text |-> rs[k].text]]

\* ExportHandler.exportAsDelimited: number and text of every row (the header
\* line and the quoting of the text are left out)
exportAsDelimited(rs) ==
    [k \in 1..Len(rs) |-> [number |-> rs[k].number, text |-> rs[k].text]]

ExportFormats == {"text", "csv"}

\* what the copy and export handlers do with the rows getDisplayRows returns
writeOutput(via, rowsOut, lines) ==
    /\ output' = IF rowsOut = <<>> THEN NoOutput ELSE [via |-> via, lines |-> lines]
    /\ UNCHANGED <<fullRows, currentRows, collapseChecked, displayRows>>
    /\ UNCHANGED coreVars
    /\ UNCHANGED callVars
    /\ UNCHANGED lineVars
    /\ UNCHANGED sessionVars

\* CopyHandler.copyToClipboard
copyToClipboard ==
    writeOutput("copy", getDisplayRows(currentRows, collapseChecked),
                formatRowsForCopy(getDisplayRows(currentRows, collapseChecked)))

\* ExportHandler.exportRows(format)
exportRows(format) ==
    writeOutput(format, getDisplayRows(currentRows, collapseChecked),
                IF format = "text"
                THEN exportAsText(getDisplayRows(currentRows, collapseChecked))
                ELSE exportAsDelimited(getDisplayRows(currentRows, collapseChecked)))

NextView ==
    \/ \E t \in ViewInputs :
           \E confirmed \in (IF isLargeDocument(t) THEN BOOLEAN ELSE {TRUE}) :
               handleSplit(t, confirmed)
    \/ handleCollapseToggle
    \/ copyToClipboard
    \/ \E format \in ExportFormats : exportRows(format)

SpecView == InitView /\ [][NextView]_vars

-----------------------------------------------------------------------------
(* Specification SpecLine: the detector functions, each called on one line *)

\* space ( ) * . 5 : A a, the Devanagari letter ka and the Devanagari digit 1
LineChars == {32, 40, 41, 42, 46, 53, 58, 65, 97, 2325, 2407}

\* longer lines: "5 a."  "*5a."  "* 5 ."  "55a ."  <1>" "<ka>"."  "5.(a)"
\* "(a)5."  " (5) 5."  "a: a:a"  " a : a "  "*5A. a: a"
\* <1><U+0929>"."  <1><U+0929>". a"
SampleLines ==
    {<<53, 32, 97, 46>>, <<42, 53, 97, 46>>, <<42, 32, 53, 32, 46>>,
     <<53, 53, 97, 32, 46>>, <<2407, 32, 2325, 46>>, <<53, 46, 40, 97, 41>>,
     <<40, 97, 41, 53, 46>>, <<32, 40, 53, 41, 32, 53, 46>>,
     <<97, 58, 32, 97, 58, 97>>, <<32, 97, 32, 58, 32, 97, 32>>,
     <<42, 53, 65, 46, 32, 97, 58, 32, 97>>,
     <<2407, 2345, 46>>, <<2407, 2345, 46, 32, 97>>}

LineInputs == UNION {[1..k -> LineChars] : k \in 0..MaxLineLen} \cup SampleLines

InitLine ==
    /\ argType = "string"
    /\ text = <<>>
    /\ CoreIdle
    /\ CallsIdle
    /\ ViewIdle
    /\ SessionIdle
    /\ lineArg \in LineInputs
    /\ call = "none"
    /\ answer = [value |-> FALSE]

\* one detector function is called on the line and its result kept
CallOnLine(name, result) ==
    /\ call = "none"
    /\ call' = name
    /\ answer' = result
    /\ UNCHANGED lineArg
    /\ UNCHANGED coreVars
    /\ UNCHANGED callVars
    /\ UNCHANGED viewVars
    /\ UNCHANGED sessionVars

\* ClauseNumberDetector.detectClauseNumber(line)
CallDetectClauseNumber == CallOnLine("detectClauseNumber", detectClauseNumber(lineArg))

\* ClauseNumberDetector.hasClauseNumber(line) and isSubClause(line)
CallHasClauseNumberIsSubClause ==
    CallOnLine("hasClauseNumber, isSubClause",
               [hasClauseNumber |-> hasClauseNumber(lineArg),
                isSubClause |-> isSubClause(lineArg)])

\* RowGenerator.isClauseNumber(text)
CallIsClauseNumber == CallOnLine("isClauseNumber", [value |-> isClauseNumber(lineArg)])

\* LeadingPhraseDetector.detectLeadingPhrase(line, remainder)
CallDetectLeadingPhrase ==
    CallOnLine("detectLeadingPhrase", detectLeadingPhrase(lineArg, lineArg))

\* ClauseNumberDetector.isAmendmentClause(line) and getClauseType(line), with
\* the detection they rest on and DevanagariParser.getEnglishEquivalent of
\* the detected numeral
CallIsAmendmentClause ==
    CallOnLine("isAmendmentClause, getClauseType",
               [isAmendmentClause |-> isAmendmentClause(lineArg),
                getClauseType |-> getClauseType(lineArg),
                detection |-> detectClauseNumber(lineArg),
                englishEquivalent |->
                    getEnglishEquivalent(detectClauseNumber(lineArg).baseNumber)])

NextLine ==
    \/ CallIsAmendmentClause
    \/ CallDetectClauseNumber
    \/ CallHasClauseNumberIsSubClause
    \/ CallIsClauseNumber
    \/ CallDetectLeadingPhrase

SpecLine == InitLine /\ [][NextLine]_vars

-----------------------------------------------------------------------------
(* Specification SpecNumeral: getEnglishEquivalent, once and once more *)

\* the Devanagari digits, ka..ra (U+0915..U+0930), and . 5 a
NumeralChars == (2406..2415) \cup (2325..2352) \cup {46, 53, 97}

NumeralInputs == UNION {[1..k -> NumeralChars] : k \in 0..MaxNumeralLen}

InitNumeral ==
    /\ argType = "string"
    /\ text = <<>>
    /\ CoreIdle
    /\ CallsIdle
    /\ ViewIdle
    /\ SessionIdle
    /\ lineArg \in NumeralInputs
    /\ call = "none"
    /\ answer = [value |-> FALSE]

\* DevanagariParser.getEnglishEquivalent(devanagariNumeral)
CallGetEnglishEquivalent ==
    CallOnLine("getEnglishEquivalent", [value |-> getEnglishEquivalent(lineArg)])

\* DevanagariParser.getEnglishEquivalent on the string the first call returned
CallGetEnglishEquivalentAgain ==
    /\ call = "getEnglishEquivalent"
    /\ call' = "getEnglishEquivalent again"
    /\ answer' = [value |-> getEnglishEquivalent(answer.value), first |-> answer.value]
    /\ UNCHANGED lineArg
    /\ UNCHANGED coreVars
    /\ UNCHANGED callVars
    /\ UNCHANGED viewVars
    /\ UNCHANGED sessionVars

NextNumeral == CallGetEnglishEquivalent \/ CallGetEnglishEquivalentAgain

SpecNumeral == InitNumeral /\ [][NextNumeral]_vars

-----------------------------------------------------------------------------
(* Specification SpecPara: splitByParagraphs on texts of several paragraphs *)

ParaChars == {10, 32, 97, 98}
ParaInputs == UNION {[1..k -> ParaChars] : k \in 0..MaxParaLen}

InitPara ==
    /\ argType = "string"
    /\ text \in ParaInputs
    /\ CoreIdle
    /\ CallsIdle
    /\ ViewIdle
    /\ SessionIdle
    /\ LineIdle

NextPara == CallSplitByParagraphs

SpecPara == InitPara /\ [][NextPara]_vars

-----------------------------------------------------------------------------
(* Properties of the segmentation core (specification Spec) *)

\* the lines of the argument, as splitText cuts them
TextLines == split(text, 10)

\* the clause token of a matching line in the source's own characters:
\* the text the numeral pattern matched, amendment symbol through period
ClauseTokenText(line) ==
    LET t == trimStart(line)
    IN  IF englishNumeralPattern(t).matched THEN englishNumeralPattern(t).m0
        ELSE devanagariNumeralPattern(t).m0

\* what follows the clause token on the line, left-trimmed
TextAfterToken(line) ==
    LET t == trimStart(line)
    IN  trimStart(SubSeq(t, Len(ClauseTokenText(line)) + 1, Len(t)))

\* the segments C1 describes for a matching line
C1Expected(line) ==
    LET rest == TextAfterToken(line)
        colon == indexOf(rest, 58)
        before == IF colon = -1 THEN <<>> ELSE trim(SubSeq(rest, 1, colon))
        after == IF colon = -1 THEN <<>> ELSE trim(SubSeq(rest, colon + 2, Len(rest)))
    IN  <<getClauseNumberRow(line)>> \o
        (IF before # <<>>
         THEN <<before \o <<58>> >> \o (IF after # <<>> THEN <<after>> ELSE <<>>)
         ELSE IF rest # <<>> THEN <<rest>> ELSE <<>>)

C2_ClauseRowIsSourceToken ==
    (op = "splitText" /\ Truthy(text) /\ hasClauseNumber(TextLines[1])) =>
        segments[1] = ClauseTokenText(TextLines[1])

\* C3: the first row generateRowsFromText produces for a matching line is
\* flagged isClauseNumber, and isAmendment when the line begins with an
\* amendment symbol.
C3_FirstRowFlags ==
    (op = "generateRowsFromText" /\ Truthy(text) /\ hasClauseNumber(TextLines[1])) =>
        /\ rows[1].isClauseNumber
        /\ (trimStart(TextLines[1])[1] \in amendmentSymbols => rows[1].isAmendment)

\* a sub-clause marker at the start of the left-trimmed line: "(", one or more
\* ASCII alphanumerics or Devanagari digits/letters, ")"
BeginsWithSubClauseMarker(line) ==
    LET t == trimStart(line)
        inner == AsciiDigits \cup AsciiLower \cup AsciiUpper \cup DevanagariRange
                     \cup DevanagariDigits
    IN  \E k \in 3..Len(t) :
            /\ t[1] = 40
            /\ t[k] = 41
            /\ \A j \in 2..(k - 1) : t[j] \in inner

\* C4: every line that begins with a sub-clause marker yields exactly one
\* segment, the whole line, whatever follows the marker.
C4_SubClauseLineUnsplit ==
    (op = "splitText" /\ Truthy(text)) =>
        segments = Flatten([k \in 1..Len(TextLines) |->
                               IF BeginsWithSubClauseMarker(TextLines[k])
                               THEN <<TextLines[k]>>
                               ELSE splitLine(TextLines[k])])

\* a sub-clause line followed by a colon and clause-like text came out whole
C4_Witness ==
    /\ op = "splitText"
    /\ text = Scenario6
    /\ segments = <<Scenario6>>

\* C5: every line contributes at least 1 and at most 3 segments, so the
\* number of segments (and of rows) is between the number of input lines
\* and three times it.
C5_SegmentsPerLine ==
    /\ (op \in {"splitText", "generateRowsFromText"}) =>
           /\ Len(segments) >= totalLines(text)
           /\ Len(segments) <= 3 * totalLines(text)
    /\ (op = "generateRowsFromText") => Len(rows) = Len(segments)
    /\ Truthy(text) =>
           \A k \in 1..Len(TextLines) :
               Len(splitLine(TextLines[k])) \in 1..3

\* several lines, one of which was split into more than one segment
C5_Witness ==
    /\ op = "generateRowsFromText"
    /\ totalLines(text) >= 2
    /\ Len(rows) > totalLines(text)

StripWhiteSpace(s) == SelectSeq(s, LAMBDA c : c \notin WhiteSpace)

\* C6: the row texts of generateRowsFromText, concatenated in order, are the
\* input with white space disregarded.
C6_ContentPreserved ==
    (op = "generateRowsFromText") =>
        StripWhiteSpace(Flatten([k \in 1..Len(rows) |-> rows[k].text]))
            = StripWhiteSpace(text)

\* C7: generateRows numbers the n rows 1..n in order, and enhanceRows keeps
\* the numbers.
C7_RowNumbers ==
    (op \in {"generateRowsFromText", "enhanceRows"}) =>
        /\ Len(rows) = Len(segments)
        /\ \A k \in 1..Len(rows) : rows[k].number = k /\ rows[k].text = segments[k]

\* three or more rows have been enhanced
C7_Witness ==
    /\ op = "enhanceRows"
    /\ Len(rows) >= 3
    /\ rows[3].number = 3 /\ rows[3].index = 2

-----------------------------------------------------------------------------
(* Properties of the entry points, of repeated calls and of the view *)

\* C8: for a null, undefined, non-string or empty-string argument every
\* splitting entry point returns an empty sequence and does not throw.
C8_EmptyForInvalidInput ==
    (op # "idle" /\ (argType # "string" \/ text = <<>>)) =>
        /\ ~threw
        /\ segments = <<>>
        /\ rows = <<>>

C10_CollapsedView ==
    (collapseChecked /\ fullRows # <<>>) =>
        /\ displayRows = SelectSeq(fullRows, LAMBDA row : row.isEmpty = FALSE)
        /\ currentRows = displayRows

\* a split with empty rows is displayed collapsed
C10_Witness ==
    /\ collapseChecked
    /\ Len(fullRows) = 3
    /\ fullRows[2].isEmpty
    /\ Len(displayRows) = 2
    /\ displayRows[2] = fullRows[3]
    /\ currentRows = displayRows

\* a step in which handleSplit reached performSplit
PerformSplitStep ==
    /\ collapseChecked' = collapseChecked
    /\ output' = NoOutput
    /\ Truthy(text') /\ trim(text') # <<>>
    /\ (text' # text \/ fullRows' # fullRows \/ displayRows' # displayRows)

\* C11: with collapse disabled, getDisplayRows returns the rows it was given
\* unchanged -- same rows, same order, same numbers: a split displays the
\* enhanced rows it made, and unchecking the box displays the rows the
\* renderer held.
C11_UncollapsedIdentity ==
    [][(~collapseChecked') =>
          /\ PerformSplitStep =>
                 /\ displayRows' = rows'
                 /\ currentRows' = displayRows'
          /\ (collapseChecked /\ currentRows # <<>>) =>
                 /\ displayRows' = currentRows
                 /\ currentRows' = currentRows]_vars

\* a split with an empty row is displayed in full, box unchecked
C11_Witness ==
    /\ ~collapseChecked
    /\ op = "performSplit"
    /\ Len(displayRows) = 3
    /\ displayRows[2].isEmpty
    /\ displayRows = fullRows
    /\ \A k \in 1..3 : displayRows[k].number = k

\* every entry carries the number and text of a non-empty row of full
KeepsFullNumbers(entries, full) ==
    \A k \in 1..Len(entries) :
        /\ entries[k].number \in 1..Len(full)
        /\ full[entries[k].number].number = entries[k].number
        /\ full[entries[k].number].text = entries[k].text
        /\ ~full[entries[k].number].isEmpty

C13_ToggleRestoresFullView ==
    (~collapseChecked /\ fullRows # <<>>) => displayRows = fullRows

RECURSIVE WithNewlines(_)
\* the text with every \r\n and every lone \r replaced by \n
WithNewlines(s) ==
    IF s = <<>> THEN <<>>
    ELSE IF s[1] = 13 /\ Len(s) >= 2 /\ s[2] = 10
    THEN <<10>> \o WithNewlines(SubSeq(s, 3, Len(s)))
    ELSE IF s[1] = 13 THEN <<10>> \o WithNewlines(Tail(s))
    ELSE <<s[1]>> \o WithNewlines(Tail(s))

\* C14: splitText and generateRowsFromText treat \r\n and a lone \r as line
\* terminators exactly like \n: a text gives the rows the same text with \n
\* separators gives.
C14_LineTerminators ==
    /\ (op = "splitText") => segments = splitText(WithNewlines(text))
    /\ (op = "generateRowsFromText") => rows = generateRowsFromText(WithNewlines(text))

\* C17: every row generateRowsFromText produces, empty rows included, has a
\* language tag among english, devanagari, mixed, other; it is mixed when a
\* Latin letter and a Devanagari glyph both occur and other exactly when
\* neither occurs.
C17_LanguageTag ==
    (op = "generateRowsFromText") =>
        \A k \in 1..Len(rows) :
            /\ rows[k].language \in {"english", "devanagari", "mixed", "other"}
            /\ ((\E j \in 1..Len(rows[k].text) :
                     rows[k].text[j] \in (65..90) \cup (97..122))
                  /\ (\E j \in 1..Len(rows[k].text) : rows[k].text[j] \in 2304..2431))
                   => rows[k].language = "mixed"
            /\ rows[k].language = "other" <=>
                   \A j \in 1..Len(rows[k].text) :
                       rows[k].text[j] \notin (65..90) \cup (97..122) \cup (2304..2431)

\* C23: getRowType gives every row exactly one of empty, amendment-clause,
\* clause-number, leading-phrase, content: empty first; else a clause-number
\* row is amendment-clause when isAmendment and clause-number otherwise; else
\* leading-phrase; else content. An amendment symbol on a row that is not a
\* clause number never makes it amendment-clause.
C23_RowType ==
    (op = "exportAsJson") =>
        /\ Len(output.lines) = Len(rows)
        /\ \A k \in 1..Len(rows) :
               /\ output.lines[k].type \in
                      {"empty", "amendment-clause", "clause-number", "leading-phrase", "content"}
               /\ output.lines[k].type = "empty" <=> rows[k].isEmpty
               /\ output.lines[k].type = "amendment-clause" <=>
                      (~rows[k].isEmpty /\ rows[k].isClauseNumber /\ rows[k].isAmendment)
               /\ output.lines[k].type = "clause-number" <=>
                      (~rows[k].isEmpty /\ rows[k].isClauseNumber /\ ~rows[k].isAmendment)
               /\ output.lines[k].type = "leading-phrase" <=>
                      (~rows[k].isEmpty /\ ~rows[k].isClauseNumber /\ rows[k].isLeadingPhrase)
               /\ output.lines[k].type = "content" <=>
                      (~rows[k].isEmpty /\ ~rows[k].isClauseNumber /\ ~rows[k].isLeadingPhrase)

\* a row with an amendment symbol that is no clause number was exported as a
\* leading phrase
C23_Witness ==
    /\ op = "exportAsJson"
    /\ Len(rows) >= 1
    /\ rows[1].isAmendment /\ ~rows[1].isClauseNumber /\ rows[1].isLeadingPhrase
    /\ output.lines[1].type = "leading-phrase"

C30_FlagsExclusive ==
    (op = "generateRowsFromText") =>
        \A k \in 1..Len(rows) :
            /\ rows[k].isEmpty =>
                   (~rows[k].isClauseNumber /\ ~rows[k].isLeadingPhrase /\ ~rows[k].isAmendment)
            /\ ~(rows[k].isClauseNumber /\ rows[k].isLeadingPhrase)

\* a clause number row, a leading phrase row and an empty row in one result
C30_Witness ==
    /\ op = "generateRowsFromText"
    /\ Len(rows) >= 3
    /\ rows[1].isClauseNumber /\ ~rows[1].isLeadingPhrase
    /\ rows[2].isLeadingPhrase /\ ~rows[2].isClauseNumber
    /\ \E k \in 3..Len(rows) : rows[k].isEmpty

\* the segments a line yields as the first of two lines, the second one empty
\* (the empty second line yields the one empty segment dropped here)
SegmentsInIsolation(l) ==
    SubSeq(splitText(l \o <<10>>), 1, Len(splitText(l \o <<10>>)) - 1)

\* C19: the segments emitted for a line depend on that line's text alone:
\* splitText's result is, line by line, what each line yields in isolation,
\* whatever precedes or follows it.
C19_LineIndependence ==
    (op = "splitText" /\ Truthy(text)) =>
        segments = Flatten([k \in 1..Len(TextLines) |-> SegmentsInIsolation(TextLines[k])])

\* a clause line after an empty line has been split in two
C19_Witness ==
    /\ op = "splitText"
    /\ Len(TextLines) = 2
    /\ TextLines[1] = <<>>
    /\ hasClauseNumber(TextLines[2])
    /\ Len(segments) = 3

-----------------------------------------------------------------------------
(* Properties of the detector functions (specification SpecLine) *)

\* t begins with: an optional single amendment symbol, optional white space,
\* one or more of the digits, an optional single one of the letters right
\* after the last digit, optional white space, a period
ClauseShape(t, digits, letters) ==
    \E sym \in {0, 1} : \E suffix \in {0, 1} :
        \E p2 \in 1..Len(t) : \E p3 \in 1..Len(t) : \E p5 \in 1..Len(t) :
            /\ sym + 1 <= p2 /\ p2 < p3 /\ p3 + suffix <= p5
            /\ (sym = 1) => t[1] \in amendmentSymbols
            /\ \A k \in (sym + 1)..(p2 - 1) : t[k] \in WhiteSpace
            /\ \A k \in p2..(p3 - 1) : t[k] \in digits
            /\ (suffix = 1) => t[p3] \in letters
            /\ \A k \in (p3 + suffix)..(p5 - 1) : t[k] \in WhiteSpace
            /\ t[p5] = 46

\* C15: detectClauseNumber returns a token exactly when the left-trimmed
\* line does not begin with a sub-clause marker and begins with an optional
\* single amendment symbol, optional white space, one or more digits of one
\* script, an optional single letter of the same script (A-Z, a-z; ka..ya)
\* right after the last digit, optional white space and a period.
C15_ClauseTokenShape ==
    (call = "detectClauseNumber") =>
        (answer.detected <=>
            /\ ~BeginsWithSubClauseMarker(lineArg)
            /\ \/ ClauseShape(trimStart(lineArg), 48..57, (65..90) \cup (97..122))
               \/ ClauseShape(trimStart(lineArg), 2406..2415, 2325..2351))

\* "*5a." has been detected: symbol *, numeral 5a
C15_Witness ==
    /\ call = "detectClauseNumber"
    /\ lineArg = <<42, 53, 97, 46>>
    /\ answer.detected
    /\ answer.amendment = <<42>>
    /\ answer.baseNumber = <<53, 97>>

\* C16: isClauseNumber is true exactly when the clause matcher matches the
\* text and nothing remains after the terminating period.
C16_FlagIsFullMatch ==
    (call = "isClauseNumber") =>
        (answer.value <=> (hasClauseNumber(lineArg) /\ getRemainder(lineArg) = Null))

\* the part of r before its first colon, and the part after it
BeforeFirstColon(r) ==
    SubSeq(r, 1, (CHOOSE k \in 1..Len(r) :
                     r[k] = 58 /\ \A j \in 1..(k - 1) : r[j] # 58) - 1)

AfterFirstColon(r) == SubSeq(r, Len(BeforeFirstColon(r)) + 2, Len(r))

C20_SubClauseExcludesClause ==
    (call = "hasClauseNumber, isSubClause") =>
        /\ ~(answer.isSubClause /\ answer.hasClauseNumber)
        /\ BeginsWithSubClauseMarker(lineArg) =>
               (answer.isSubClause /\ ~answer.hasClauseNumber)

\* "(a)5." has been found a sub-clause and no clause
C20_Witness ==
    /\ call = "hasClauseNumber, isSubClause"
    /\ lineArg = <<40, 97, 41, 53, 46>>
    /\ answer.isSubClause
    /\ ~answer.hasClauseNumber

\* C27: every letter the Devanagari clause pattern accepts as a suffix is a
\* key of devanagariLetters: for every Devanagari clause token whose numeral
\* ends in a letter, hasAlpha is true, isAmendmentClause is true,
\* getClauseType is 'amendment', and getEnglishEquivalent of the numeral is
\* pure ASCII.
C27_SuffixLettersInTable ==
    (/\ call = "isAmendmentClause, getClauseType"
     /\ answer.detection.detected
     /\ answer.detection.language = "devanagari"
     /\ answer.detection.baseNumber[Len(answer.detection.baseNumber)] \notin 2406..2415) =>
        /\ answer.detection.hasAlpha
        /\ answer.isAmendmentClause
        /\ answer.getClauseType = "amendment"
        /\ \A k \in 1..Len(answer.englishEquivalent) : answer.englishEquivalent[k] < 128

-----------------------------------------------------------------------------
(* Properties of normalization (specification SpecNorm) *)

\* s without its leading and trailing white space
WithoutEnds(s) ==
    IF \A k \in 1..Len(s) : s[k] \in WhiteSpace THEN <<>>
    ELSE SubSeq(s,
                CHOOSE i \in 1..Len(s) :
                    s[i] \notin WhiteSpace /\ \A k \in 1..(i - 1) : s[k] \in WhiteSpace,
                CHOOSE j \in 1..Len(s) :
                    s[j] \notin WhiteSpace /\ \A k \in (j + 1)..Len(s) : s[k] \in WhiteSpace)

\* the positions of s that survive when every run of spaces is cut to its
\* first space
KeptPositions(s) == {k \in 1..Len(s) : ~(s[k] = 32 /\ k > 1 /\ s[k - 1] = 32)}

\* s with every run of two or more spaces replaced by one space
WithSingleSpaces(s) ==
    [n \in 1..Cardinality(KeptPositions(s)) |->
        s[CHOOSE k \in KeptPositions(s) :
              Cardinality({m \in KeptPositions(s) : m <= k}) = n]]

\* C21: splitWithNormalization changes each segment of splitText only by
\* removing its leading and trailing white space and replacing every run of
\* two or more interior spaces with one space (tabs stay), and normalizing
\* its output again changes nothing.
C21_Normalization ==
    /\ (op = "splitWithNormalization") =>
           /\ Len(segments) = Len(probeRows)
           /\ \A k \in 1..Len(segments) :
                  segments[k] = WithSingleSpaces(WithoutEnds(probeRows[k]))
    /\ (op = "normalizeOutput") => segments = probeRows

\* "a<tab><space><space>a" was normalized to "a<tab><space>a", and normalizing
\* that again has left it as it was
C21_Witness ==
    /\ op = "normalizeOutput"
    /\ text = <<97, 9, 32, 32, 97>>
    /\ probeRows = << <<97, 9, 32, 97>> >>
    /\ segments = probeRows

-----------------------------------------------------------------------------
(* Properties of the numeral conversion (specification SpecNumeral) *)

\* C22: getEnglishEquivalent maps each Devanagari digit to 0..9 and each of
\* the 26 consonants of the table (ka..ya without U+0929) to a..z in table
\* order, leaves every other character unchanged, preserves the number of
\* characters, and is idempotent.
C22_EnglishEquivalent ==
    /\ (call = "getEnglishEquivalent") =>
           /\ Len(answer.value) = Len(lineArg)
           /\ \A k \in 1..Len(lineArg) :
                  answer.value[k] =
                      IF lineArg[k] \in 2406..2415 THEN lineArg[k] - 2406 + 48
                      ELSE IF lineArg[k] \in 2325..2344 THEN lineArg[k] - 2325 + 97
                      ELSE IF lineArg[k] \in 2346..2351 THEN lineArg[k] - 2346 + 117
                      ELSE lineArg[k]
    /\ (call = "getEnglishEquivalent again") => answer.value = answer.first

\* <Devanagari 5><pa> became "5u", and converting "5u" again has left it
C22_Witness ==
    /\ call = "getEnglishEquivalent again"
    /\ lineArg = <<2411, 2346>>
    /\ answer.first = <<53, 117>>
    /\ answer.value = <<53, 117>>

-----------------------------------------------------------------------------
(* TableRenderer: render, addRow, removeRow, updateRow, clear *)
(* rows holds the row objects of the last split; a row object is known by   *)
(* its number, and currentRows holds references to these objects.           *)

TableChars == {10, 97}
TableInputs == UNION {[1..k -> TableChars] : k \in 0..MaxTableLen}
UpdateTexts == {<<>>, <<98>>}

\* rowObj.text = newText on the object numbered rowNumber
withText(rs, rowNumber, newText) ==
    [k \in 1..Len(rs) |->
        IF rs[k].number = rowNumber THEN [rs[k] EXCEPT !.text = newText] ELSE rs[k]]

\* a TableRenderer call leaves everything but the table and the row objects
TableCall ==
    /\ op = "enhanceRows"
    /\ UNCHANGED <<argType, text, op, threw, segments>>
    /\ UNCHANGED <<fullRows, collapseChecked, displayRows, output>>
    /\ UNCHANGED callVars
    /\ UNCHANGED lineVars
    /\ UNCHANGED sessionVars

\* TableRenderer.render(rows)
render ==
    /\ currentRows' = rows
    /\ UNCHANGED rows
    /\ TableCall

\* TableRenderer.addRow(row)
addRow(row) ==
    /\ Len(currentRows) < MaxTableRows
    /\ currentRows' = Append(currentRows, row)
    /\ UNCHANGED rows
    /\ TableCall

\* TableRenderer.removeRow(rowNumber)
removeRow(rowNumber) ==
    /\ currentRows' = SelectSeq(currentRows, LAMBDA r : r.number # rowNumber)
    /\ UNCHANGED rows
    /\ TableCall

\* TableRenderer.updateRow(rowNumber, newText): the row object found in
\* currentRows is the one the split created, so its text changes wherever
\* the object is held
updateRow(rowNumber, newText) ==
    /\ IF \E k \in 1..Len(currentRows) : currentRows[k].number = rowNumber
       THEN /\ currentRows' = withText(currentRows, rowNumber, newText)
            /\ rows' = withText(rows, rowNumber, newText)
       ELSE UNCHANGED <<currentRows, rows>>
    /\ TableCall

\* TableRenderer.clear()
clear ==
    /\ currentRows' = <<>>
    /\ UNCHANGED rows
    /\ TableCall

InitTable ==
    /\ argType = "string"
    /\ text \in TableInputs
    /\ CoreIdle
    /\ CallsIdle
    /\ ViewIdle
    /\ SessionIdle
    /\ LineIdle

NextTable ==
    \/ CallGenerateRowsFromText
    \/ CallEnhanceRows
    \/ render
    \/ \E k \in 1..Len(rows) : addRow(rows[k])
    \/ \E n \in 1..(MaxTableLen + 1) : removeRow(n)
    \/ \E n \in 1..(MaxTableLen + 1), newText \in UpdateTexts : updateRow(n, newText)
    \/ clear

SpecTable == InitTable /\ [][NextTable]_vars

-----------------------------------------------------------------------------
(* Properties of SpecTable *)

\* C26: rows are not altered after creation: after any sequence of render,
\* addRow, removeRow, updateRow and clear on rows made by RowGenerator, every
\* row in currentRows has the text it was created with, and its isEmpty flag
\* equals (trimmed text is empty).
C26_RowsUnaltered ==
    \A k \in 1..Len(currentRows) :
        /\ currentRows[k].text = generateRowsFromText(text)[currentRows[k].number].text
        /\ currentRows[k].isEmpty = (trim(currentRows[k].text) = <<>>)

-----------------------------------------------------------------------------
(* HistoryManager: the history kept in localStorage *)
(* An item is [id, text, timestamp]; timestamp is TRUE when the item has one. *)

MAX_HISTORY_ITEMS == 6

ItemIds == {1, 2}
AddItems == {[text |-> <<97>>, timestamp |-> b] : b \in BOOLEAN}
StoredItems == {[id |-> i, text |-> <<97>>, timestamp |-> TRUE] : i \in ItemIds}
AnyItems == StoredItems \cup {[id |-> 1, text |-> <<>>, timestamp |-> TRUE],
                              [id |-> 1, text |-> <<97>>, timestamp |-> FALSE]}
\* what JSON.parse(jsonString) gives: a syntax error, a value that is no
\* array, an array of well-formed items, a short array of any items
ImportArrays ==
    UNION {[1..k -> StoredItems] : k \in 0..MaxImportLen}
    \cup UNION {[1..k -> AnyItems] : k \in 1..2}
ImportInputs ==
    {[kind |-> "SyntaxError", items |-> <<>>], [kind |-> "object", items |-> <<>>]}
    \cup {[kind |-> "array", items |-> a] : a \in ImportArrays}

\* what localStorage.setItem does
SaveOutcomes == {"saved", "QuotaExceededError", "Error"}

\* addHistoryItem putting the new item last
withNewItemLast(h, newItem) ==
    IF Len(h) + 1 > MAX_HISTORY_ITEMS THEN Append(SubSeq(h, 1, Len(h) - 1), newItem)
    ELSE Append(h, newItem)

\* history.unshift(newItem), then history.pop() when over MAX_HISTORY_ITEMS
withNewItem(h, newItem) ==
    IF Len(h) + 1 > MAX_HISTORY_ITEMS THEN <<newItem>> \o SubSeq(h, 1, Len(h) - 1)
    ELSE <<newItem>> \o h

\* localStorage after saveHistory(h) when it held stored
saveHistory(stored, h, outcome) ==
    IF outcome = "saved" THEN h
    ELSE IF outcome = "QuotaExceededError" THEN <<>>
    ELSE stored

\* a HistoryManager call leaves everything but the history and its record
HistoryCall(name, result) ==
    /\ op' = name
    /\ answer' = result
    /\ UNCHANGED <<argType, text, threw, segments, rows>>
    /\ UNCHANGED callVars
    /\ UNCHANGED viewVars
    /\ UNCHANGED <<lineArg, call, textarea, uploads>>

\* addHistoryItem(item) at time now
addHistoryItem(item, now, outcome) ==
    /\ history' = saveHistory(history,
                              withNewItem(history,
                                          [id |-> now, text |-> item.text, timestamp |-> TRUE]),
                              outcome)
    /\ HistoryCall("addHistoryItem",
                   [value |-> [id |-> now, text |-> item.text, timestamp |-> TRUE],
                    saved |-> outcome, stored |-> Len(history)])

removeHistoryItem(id, outcome) ==
    /\ history' = saveHistory(history, SelectSeq(history, LAMBDA item : item.id # id), outcome)
    /\ HistoryCall("removeHistoryItem", [value |-> FALSE, saved |-> outcome])

clearHistory ==
    /\ history' = <<>>
    /\ HistoryCall("clearHistory", [value |-> FALSE])

importValid(parsed) == \A k \in 1..Len(parsed) : Truthy(parsed[k].text) /\ parsed[k].timestamp

importHistoryArray(parsed, outcome) ==
    IF ~importValid(parsed)
    THEN /\ UNCHANGED history
         /\ HistoryCall("importHistory", [value |-> FALSE])
    ELSE /\ history' = saveHistory(history,
                                   SubSeq(parsed, 1, IF Len(parsed) < MAX_HISTORY_ITEMS
                                                     THEN Len(parsed) ELSE MAX_HISTORY_ITEMS),
                                   outcome)
         /\ HistoryCall("importHistory", [value |-> TRUE, saved |-> outcome])

importHistory(parsed, outcome) ==
    IF parsed.kind # "array"
    THEN /\ UNCHANGED history
         /\ HistoryCall("importHistory", [value |-> FALSE])
    ELSE importHistoryArray(parsed.items, outcome)

InitHistory ==
    /\ argType = "string"
    /\ text = <<>>
    /\ CoreIdle
    /\ CallsIdle
    /\ ViewIdle
    /\ SessionIdle
    /\ LineIdle

NextHistory ==
    \/ \E item \in AddItems, now \in ItemIds, outcome \in SaveOutcomes :
          addHistoryItem(item, now, outcome)
    \/ \E id \in ItemIds, outcome \in SaveOutcomes : removeHistoryItem(id, outcome)
    \/ clearHistory
    \/ \E parsed \in ImportInputs, outcome \in SaveOutcomes : importHistory(parsed, outcome)

SpecHistory == InitHistory /\ [][NextHistory]_vars

-----------------------------------------------------------------------------
(* Properties of SpecHistory *)

\* the history after adding newItem to before: newItem first, the items of
\* before behind it in their order, the last of six dropped
NewItemFirst(before, after, newItem) ==
    /\ Len(after) = (IF Len(before) = 6 THEN 6 ELSE Len(before) + 1)
    /\ after[1] = newItem
    /\ \A k \in 2..Len(after) : after[k] = before[k - 1]

-----------------------------------------------------------------------------
(* FileUploadHandler.handleFileSelect: selections whose extractions overlap *)
(* uploads lists the selections that passed validation, in the order they   *)
(* were made; a selection is reading until its extraction settles.          *)

\* 5 * 1024 * 1024
MaxFileSize == 5242880

UploadFiles ==
    {[ext |-> "txt", size |-> 1, text |-> <<97>>],
     [ext |-> "txt", size |-> 4, text |-> <<65279, 98, 13, 10>>],
     [ext |-> "pdf", size |-> MaxFileSize + 1, text |-> <<97>>],
     [ext |-> "exe", size |-> 1, text |-> <<97>>]}

\* TextExtractor.validateFile(file).valid
validateFile(file) ==
    IF file.size > MaxFileSize THEN FALSE
    ELSE file.ext \in {"txt", "docx", "pdf"}

stripBOM(s) == IF Len(s) > 0 /\ s[1] = 65279 THEN Tail(s) ELSE s

RECURSIVE crlfToLf(_)
\* replace(/\r\n/g, '\n')
crlfToLf(s) ==
    IF s = <<>> THEN <<>>
    ELSE IF Len(s) >= 2 /\ s[1] = 13 /\ s[2] = 10
    THEN <<10>> \o crlfToLf(SubSeq(s, 3, Len(s)))
    ELSE <<s[1]>> \o crlfToLf(Tail(s))

\* replace(/\r/g, '\n')
crToLf(s) == [k \in 1..Len(s) |-> IF s[k] = 13 THEN 10 ELSE s[k]]

\* TextExtractor.cleanText(text)
cleanText(t) == IF ~Truthy(t) THEN <<>> ELSE crToLf(crlfToLf(stripBOM(t)))

\* an upload step leaves everything but the textarea and the selections
UploadStep ==
    /\ UNCHANGED coreVars
    /\ UNCHANGED callVars
    /\ UNCHANGED viewVars
    /\ UNCHANGED lineVars
    /\ UNCHANGED history

\* handleFileSelect(file) up to its await: validation, then the extraction
\* is started
handleFileSelect(file) ==
    /\ Len(uploads) < MaxUploads
    /\ uploads' = IF validateFile(file)
                  THEN Append(uploads, [file |-> file, state |-> "reading"])
                  ELSE uploads
    /\ UNCHANGED textarea
    /\ UploadStep

\* the extraction of selection k resolves and handleFileSelect resumes:
\* inputTextArea.value = cleanedText
extractionResolves(k) ==
    /\ uploads[k].state = "reading"
    /\ textarea' = cleanText(uploads[k].file.text)
    /\ uploads' = [uploads EXCEPT ![k].state = "done"]
    /\ UploadStep

\* the extraction of selection k rejects: the catch branch shows the error
extractionRejects(k) ==
    /\ uploads[k].state = "reading"
    /\ uploads' = [uploads EXCEPT ![k].state = "failed"]
    /\ UNCHANGED textarea
    /\ UploadStep

InitUpload ==
    /\ argType = "string"
    /\ text = <<>>
    /\ CoreIdle
    /\ CallsIdle
    /\ ViewIdle
    /\ SessionIdle
    /\ LineIdle

NextUpload ==
    \/ \E file \in UploadFiles : handleFileSelect(file)
    \/ \E k \in 1..Len(uploads) : extractionResolves(k)
    \/ \E k \in 1..Len(uploads) : extractionRejects(k)

SpecUpload == InitUpload /\ [][NextUpload]_vars

-----------------------------------------------------------------------------
(* Properties of SpecUpload *)

\* C29: when file selections overlap, then once all of them have finished
\* the textarea holds the text of the file selected last, whichever
\* extraction completes first.
C29_LastSelectionWins ==
    (/\ Len(uploads) >= 2
     /\ \A k \in 1..Len(uploads) : uploads[k].state = "done") =>
        textarea = cleanText(uploads[Len(uploads)].file.text)

-----------------------------------------------------------------------------
(* Properties of SpecPara *)

\* the rows of the paragraphs with one empty row after each but the last
RowsWithOneEmptyBetween(paragraphs) ==
    Flatten([k \in 1..Len(paragraphs) |->
                (IF trim(paragraphs[k]) = <<>> THEN << <<>> >>
                 ELSE splitLines(split(paragraphs[k], 10)))
                \o (IF k < Len(paragraphs) THEN << <<>> >> ELSE <<>>)])

\* C24: splitByParagraphs emits exactly one empty row between consecutive
\* paragraphs and none after the last, also when an earlier paragraph has the
\* same text as the last one.
C24_OneEmptyRowBetween ==
    (op = "splitByParagraphs" /\ text # <<>>) =>
        segments = RowsWithOneEmptyBetween(splitParagraphs(text))

====
